---- MODULE Spec2Model ----
(***************************************************************************)
(* download_file (downloader.py): a resumable, integrity-verified,         *)
(* retrying single-file HTTP download.  One call is modelled, from the     *)
(* mkdir of line 26 to the return or the raise that ends it.  The server   *)
(* and the file system are the environment: every response and every I/O   *)
(* fault is a nondeterministic choice.                                     *)
(***************************************************************************)
EXTENDS Integers, Sequences, FiniteSets, TLC

\* ------------------------------------------------------------- bounds
\* Longest response body, in bytes.
MaxLen == 2
\* Longest destination file that exists before the call, in bytes.
MaxPrior == 1
\* Largest value of the max_retries argument.
MaxRetries == 2

Byte == {0, 1}
ChunkSizes == {1, 2}
BytesUpTo(n) == UNION {[1..k -> Byte] : k \in 0..n}
Contents == BytesUpTo(MaxLen)

Min(a, b) == IF a < b THEN a ELSE b

\* ------------------------------------------------------------- files
NoFile == [exists |-> FALSE, data |-> <<>>]
File(d) == [exists |-> TRUE, data |-> d]

\* Mutants of open: every mode appends; every mode truncates.
OpenFile_Append(f, m) == File(f.data)
OpenFile_Truncate(f, m) == File(<<>>)

\* open(dest, mode): 'wb' creates or truncates, 'ab' creates or keeps.
OpenFile(f, m) == IF m = "wb" THEN File(<<>>) ELSE File(f.data)

\* ------------------------------------------------------------- hashing
\* hashlib.new(name) raises ValueError for a name it does not know.
SupportedAlgos == {"sha1"}
HashlibNew(algo) == algo \in SupportedAlgos

\* A small stand-in for the digest function: an 8-bit rolling hash.  The
\* state of a fresh hash object, and update() folding bytes into it.
HashInit == 10
HashWidth == 256
RECURSIVE HashUpdate(_, _)
HashUpdate(h, chunk) ==
  IF chunk = <<>> THEN h
  ELSE HashUpdate((h * 31 + Head(chunk) + 1) % HashWidth, Tail(chunk))

\* for chunk in iter(lambda: f.read(chunk_size), b''): file_hash.update(chunk)
RECURSIVE HashFile(_, _, _)
HashFile(h, data, size) ==
  IF data = <<>> THEN h
  ELSE LET n == Min(size, Len(data))
       IN HashFile(HashUpdate(h, SubSeq(data, 1, n)), SubSeq(data, n + 1, Len(data)), size)

\* hexdigest(): two lowercase hexadecimal digits.
HexDigits == <<"0", "1", "2", "3", "4", "5", "6", "7", "8", "9", "a", "b", "c", "d", "e", "f">>
HexDigest(h) == <<HexDigits[(h \div 16) + 1], HexDigits[(h % 16) + 1]>>

\* str.upper() and str.lower() on one character and on a string.
UpperChar(c) ==
  CASE c = "a" -> "A" [] c = "b" -> "B" [] c = "c" -> "C"
    [] c = "d" -> "D" [] c = "e" -> "E" [] c = "f" -> "F" [] OTHER -> c
LowerChar(c) ==
  CASE c = "A" -> "a" [] c = "B" -> "b" [] c = "C" -> "c"
    [] c = "D" -> "d" [] c = "E" -> "e" [] c = "F" -> "f" [] OTHER -> c
Upper(s) == [i \in 1..Len(s) |-> UpperChar(s[i])]
Lower(s) == [i \in 1..Len(s) |-> LowerChar(s[i])]

\* The digest the verifier computes for a file read in chunks of `size`.
FileDigest(data, size) == HexDigest(HashFile(HashInit, data, size))

\* The values of expected_hash: none, and the digest of one content in
\* lowercase and in uppercase hex.
HashTarget == <<0, 1>>
ExpectedHashes ==
  {<<>>, FileDigest(HashTarget, 1), Upper(FileDigest(HashTarget, 1))}

\* The pairs (expected_hash, hash_algo) of a call: hash_algo is read only
\* when expected_hash is given, so the unknown name comes with a hash.
HashArgs ==
  {<<h, "sha1">> : h \in ExpectedHashes} \cup {<<FileDigest(HashTarget, 1), "nosuch">>}

\* ------------------------------------------------------------- HTTP
\* A content-length header: absent, not a number, or a number.
NoLength == [kind |-> "absent", value |-> 0]
BadLength == [kind |-> "bad", value |-> 0]
Length(n) == [kind |-> "int", value |-> n]

\* int(headers.get('content-length', 0)); ValueError on a non-number.
IntRaises(h) == h.kind = "bad"
IntOf(h) == IF h.kind = "int" THEN h.value ELSE 0

\* response.raise_for_status(): HTTPError for 4xx and 5xx.
RaiseForStatus(status) == 400 <= status /\ status < 600

NoResponse == [exc |-> FALSE, status |-> 0, content_length |-> NoLength, body |-> <<>>]
Failure == [exc |-> TRUE, status |-> 0, content_length |-> NoLength, body |-> <<>>]
Reply(s, h, b) == [exc |-> FALSE, status |-> s, content_length |-> h, body |-> b]

\* What requests.head can produce.
HeadResponses ==
  {Failure, Reply(404, NoLength, <<>>), Reply(200, NoLength, <<>>), Reply(200, BadLength, <<>>)}
    \cup {Reply(200, Length(n), <<>>) : n \in 0..(MaxPrior + 1)}

\* What requests.get can produce: a network error or timeout, an error
\* status, or a body under a non-error status.
GoodStatuses == {200, 203, 206}
GetResponses ==
  {Failure, Reply(404, NoLength, <<>>), Reply(500, NoLength, <<>>)}
    \cup {Reply(s, BadLength, <<>>) : s \in GoodStatuses}
    \cup {Reply(s, NoLength, b) : s \in GoodStatuses, b \in Contents}
    \cup {Reply(s, Length(Len(b)), b) : s \in GoodStatuses, b \in Contents}

\* ------------------------------------------------------------- exceptions
\* Mutant: the clause catches every exception.
Caught_Any(exc) == TRUE

\* except (requests.RequestException, OSError, ValueError) as e
Caught(exc) == exc \in {"RequestException", "OSError", "ValueError"}

\* The progress callbacks of a call: none, one that records its arguments,
\* and two that raise, an exception the except clause does not name and a
\* ValueError.
Callbacks == {"None", "records", "raises", "raisesValueError"}
CallbackRaising(cb) == cb \in {"raises", "raisesValueError"}
CallbackException(cb) == IF cb = "raisesValueError" THEN "ValueError" ELSE "CallbackError"

\* ------------------------------------------------------------- state
\* e is the exception bound by the except clause of line 74: "none" until
\* one is caught, and again once the loop has taken its next iteration.
VARIABLES
  max_retries, resume, expected_hash, hash_algo, progress_callback, chunk_size,
  dest, pc, attempt, mode, resume_pos, head_resp, response, total_size,
  downloaded, outcome, message, prior, range_from, calls,
  headCount, getCount, failedGets, e

\* The arguments of the call, and the destination as the call found it.
args == <<max_retries, resume, expected_hash, hash_algo, progress_callback, chunk_size, prior>>
locals == <<mode, resume_pos, head_resp, response, total_size, downloaded, range_from, calls>>
counts == <<headCount, getCount, failedGets>>
vars == <<args, dest, pc, attempt, locals, outcome, message, counts, e>>

Init ==
  /\ max_retries \in 0..MaxRetries
  /\ resume \in BOOLEAN
  /\ \E h \in HashArgs : expected_hash = h[1] /\ hash_algo = h[2]
  /\ progress_callback \in Callbacks
  /\ chunk_size \in ChunkSizes
  /\ dest \in {NoFile} \cup {File(d) : d \in BytesUpTo(MaxPrior)}
  /\ pc = "mkdir"
  /\ attempt = 0
  /\ mode = "wb"
  /\ resume_pos = 0
  /\ head_resp = NoResponse
  /\ response = NoResponse
  /\ total_size = 0
  /\ downloaded = 0
  /\ outcome = "running"
  /\ message = 0
  /\ prior = dest
  /\ range_from = 0
  /\ calls = <<>>
  /\ headCount = 0
  /\ getCount = 0
  /\ failedGets = 0
  /\ e = "none"

\* ------------------------------------------------------------- line 26
\* dest.parent.mkdir(parents=True, exist_ok=True)
MkdirOk ==
  /\ pc = "mkdir"
  /\ pc' = "loop"
  /\ UNCHANGED <<args, dest, attempt, locals, outcome, message, counts, e>>

\* mkdir raises OSError before the try block.  With exist_ok=True it cannot
\* fail when the parent is a directory, so the destination is not there.
MkdirError ==
  /\ pc = "mkdir"
  /\ ~dest.exists
  /\ pc' = "done"
  /\ outcome' = "OSError"
  /\ UNCHANGED <<args, dest, attempt, locals, message, counts, e>>

\* ------------------------------------------------------------- lines 28, 81
\* for attempt in range(max_retries): the next iteration starts.
NextAttempt ==
  /\ pc = "loop"
  /\ attempt < max_retries
  /\ pc' = "plan"
  /\ e' = "none"
  /\ UNCHANGED <<args, dest, attempt, locals, outcome, message, counts>>

\* The loop ends without an iteration having returned or raised.
ReturnFalse ==
  /\ pc = "loop"
  /\ ~(attempt < max_retries)
  /\ pc' = "done"
  /\ outcome' = "False"
  /\ UNCHANGED <<args, dest, attempt, locals, message, counts, e>>

\* ------------------------------------------------------------- lines 74-79
\* except (RequestException, OSError, ValueError): unlink the destination,
\* raise DownloadError on the last attempt, else go round the loop.
\* Mutant: the last attempt is taken to be one later than it is.
LastAttempt_OffByOne == attempt = max_retries

LastAttempt == attempt = max_retries - 1

\* Mutant: the destination is not unlinked.
Unlinked_Kept(f) == f

Unlinked(f) == NoFile

ExceptHandler ==
  /\ dest' = Unlinked(dest)
  /\ IF LastAttempt
       THEN /\ pc' = "done"
            /\ outcome' = "DownloadError"
            /\ message' = max_retries
            /\ UNCHANGED <<attempt, locals>>
       ELSE /\ pc' = "loop"
            /\ attempt' = attempt + 1
            /\ mode' = "wb"
            /\ resume_pos' = 0
            /\ head_resp' = NoResponse
            /\ response' = NoResponse
            /\ total_size' = 0
            /\ downloaded' = 0
            /\ range_from' = 0
            /\ calls' = <<>>
            /\ UNCHANGED <<outcome, message>>

\* ------------------------------------------------------------- lines 30-42
\* if resume and dest.exists() and attempt == 0
ProbeWanted == resume /\ dest.exists /\ attempt = 0

\* requests.head, raise_for_status and int() under "except Exception: pass".
ProbeFails(h) == h.exc \/ RaiseForStatus(h.status) \/ IntRaises(h.content_length)

\* Mutant: a local file as long as the remote one is resumed too.
ResumeFrom_OrEqual(h, local_size) ==
  IF ~ProbeFails(h) /\ local_size <= IntOf(h.content_length) THEN local_size ELSE 0

\* if local_size < remote_size: mode = 'ab'; resume_pos = local_size
ResumeFrom(h, local_size) ==
  IF ~ProbeFails(h) /\ local_size < IntOf(h.content_length) THEN local_size ELSE 0

\* No probe: the transfer is planned fresh.
PlanFresh ==
  /\ pc = "plan"
  /\ ~ProbeWanted
  /\ pc' = "get"
  /\ mode' = "wb"
  /\ resume_pos' = 0
  /\ UNCHANGED <<args, dest, attempt, head_resp, response, total_size, downloaded,
                 range_from, calls, outcome, message, counts, e>>

\* Mutant: a failed probe is not swallowed but handled like a failed transfer.
Probe_Unguarded ==
  /\ pc = "plan"
  /\ ProbeWanted
  /\ headCount' = headCount + 1
  /\ \E h \in HeadResponses :
       IF ProbeFails(h)
         THEN ExceptHandler /\ e' = "RequestException"
              /\ UNCHANGED <<args, getCount, failedGets>>
         ELSE /\ head_resp' = h
              /\ resume_pos' = ResumeFrom(h, Len(dest.data))
              /\ mode' = IF resume_pos' > 0 THEN "ab" ELSE "wb"
              /\ pc' = "get"
              /\ UNCHANGED <<args, dest, attempt, response, total_size, downloaded,
                             range_from, calls, outcome, message, getCount, failedGets, e>>

\* The size probe, and the plan it leads to.
Probe ==
  /\ pc = "plan"
  /\ ProbeWanted
  /\ \E h \in HeadResponses :
       /\ head_resp' = h
       /\ resume_pos' = ResumeFrom(h, Len(dest.data))
       /\ mode' = IF resume_pos' > 0 THEN "ab" ELSE "wb"
  /\ headCount' = headCount + 1
  /\ pc' = "get"
  /\ UNCHANGED <<args, dest, attempt, response, total_size, downloaded,
                 range_from, calls, outcome, message, getCount, failedGets, e>>

\* ------------------------------------------------------------- lines 44-53
\* requests.get raises, or raise_for_status raises HTTPError.
GetRaises(r) == r.exc \/ RaiseForStatus(r.status)

\* Mutant: a full-content answer to a range request goes unnoticed.
RangeIgnored_Never(pos, status) == FALSE

\* if resume_pos > 0 and response.status_code == 200: the range was ignored.
RangeIgnored(pos, status) == pos > 0 /\ status = 200

\* Mutant: the total leaves out the bytes already on disk.
TotalSize_RemainderOnly(h, pos) == IntOf(h)

\* total_size = int(response.headers.get('content-length', 0)) + resume_pos
TotalSize(h, pos) == IntOf(h) + pos

\* The content request fails: a transient failure.
GetError ==
  /\ pc = "get"
  /\ \E r \in GetResponses : GetRaises(r)
  /\ getCount' = getCount + 1
  /\ failedGets' = failedGets + 1
  /\ ExceptHandler
  /\ e' = "RequestException"
  /\ UNCHANGED <<args, headCount>>

\* The response is good but its content-length is no number: ValueError.
GetBadLength ==
  /\ pc = "get"
  /\ \E r \in GetResponses : ~GetRaises(r) /\ IntRaises(r.content_length)
  /\ getCount' = getCount + 1
  /\ ExceptHandler
  /\ e' = "ValueError"
  /\ UNCHANGED <<args, headCount, failedGets>>

\* The response is good: settle the mode, the offset and the total size.
GetOk ==
  /\ pc = "get"
  /\ \E r \in GetResponses :
       /\ ~GetRaises(r)
       /\ ~IntRaises(r.content_length)
       /\ response' = r
       /\ resume_pos' = IF RangeIgnored(resume_pos, r.status) THEN 0 ELSE resume_pos
       /\ mode' = IF RangeIgnored(resume_pos, r.status) THEN "wb" ELSE mode
       /\ total_size' = TotalSize(r.content_length, resume_pos')
       /\ downloaded' = resume_pos'
  /\ range_from' = resume_pos
  /\ getCount' = getCount + 1
  /\ calls' = <<>>
  /\ pc' = "open"
  /\ UNCHANGED <<args, dest, attempt, head_resp, outcome, message,
                 headCount, failedGets, e>>

\* ------------------------------------------------------------- line 55
\* with open(dest, mode) as f
OpenOk ==
  /\ pc = "open"
  /\ dest' = OpenFile(dest, mode)
  /\ pc' = "stream"
  /\ UNCHANGED <<args, attempt, locals, outcome, message, counts, e>>

\* open raises OSError.
OpenError ==
  /\ pc = "open"
  /\ ExceptHandler
  /\ e' = "OSError"
  /\ UNCHANGED <<args, counts>>

\* ------------------------------------------------------------- lines 56-61
\* The bytes of the body not yet read, and the next chunk of them.
Rest == SubSeq(response.body, (downloaded - resume_pos) + 1, Len(response.body))

\* Mutant: every chunk is read from the start of the body.
NextChunk_Rewound == SubSeq(response.body, 1, Min(chunk_size, Len(Rest)))

NextChunk == SubSeq(Rest, 1, Min(chunk_size, Len(Rest)))

\* if progress_callback and total_size
Reports == progress_callback # "None" /\ total_size # 0

\* Mutant: the callback is given the count from before the chunk.
WriteChunk_ReportsBefore ==
  /\ pc = "stream"
  /\ Rest # <<>>
  /\ ~(Reports /\ CallbackRaising(progress_callback))
  /\ dest' = File(dest.data \o NextChunk)
  /\ downloaded' = downloaded + Len(NextChunk)
  /\ calls' = IF Reports THEN Append(calls, <<downloaded, total_size>>) ELSE calls
  /\ UNCHANGED <<args, pc, attempt, mode, resume_pos, head_resp, response, total_size,
                 range_from, outcome, message, counts, e>>

\* f.write(chunk); downloaded += len(chunk); progress_callback(...)
WriteChunk ==
  /\ pc = "stream"
  /\ Rest # <<>>
  /\ ~(Reports /\ CallbackRaising(progress_callback))
  /\ dest' = File(dest.data \o NextChunk)
  /\ downloaded' = downloaded + Len(NextChunk)
  /\ calls' = IF Reports THEN Append(calls, <<downloaded', total_size>>) ELSE calls
  /\ UNCHANGED <<args, pc, attempt, mode, resume_pos, head_resp, response, total_size,
                 range_from, outcome, message, counts, e>>

\* The callback raises an exception the except clause does not name: it
\* leaves download_file, the with block having closed the file.
CallbackRaises ==
  /\ pc = "stream"
  /\ Rest # <<>>
  /\ Reports /\ CallbackRaising(progress_callback)
  /\ ~Caught(CallbackException(progress_callback))
  /\ dest' = File(dest.data \o NextChunk)
  /\ downloaded' = downloaded + Len(NextChunk)
  /\ pc' = "done"
  /\ outcome' = CallbackException(progress_callback)
  /\ UNCHANGED <<args, attempt, mode, resume_pos, head_resp, response, total_size,
                 range_from, calls, message, counts, e>>

\* The callback raises an exception the except clause names: a transient
\* failure, the chunk written before the call being deleted with the file.
CallbackRaisesCaught ==
  /\ pc = "stream"
  /\ Rest # <<>>
  /\ Reports /\ CallbackRaising(progress_callback)
  /\ Caught(CallbackException(progress_callback))
  /\ ExceptHandler
  /\ e' = CallbackException(progress_callback)
  /\ UNCHANGED <<args, counts>>

\* iter_content raises a RequestException before the body is complete.
StreamError ==
  /\ pc = "stream"
  /\ Rest # <<>>
  /\ ExceptHandler
  /\ e' = "RequestException"
  /\ UNCHANGED <<args, counts>>

\* f.write raises OSError.
WriteError ==
  /\ pc = "stream"
  /\ Rest # <<>>
  /\ ExceptHandler
  /\ e' = "OSError"
  /\ UNCHANGED <<args, counts>>

\* The body is exhausted and the file is closed.
EndOfStream ==
  /\ pc = "stream"
  /\ Rest = <<>>
  /\ pc' = "verify"
  /\ UNCHANGED <<args, dest, attempt, locals, outcome, message, counts, e>>

\* ------------------------------------------------------------- lines 63-72
\* Mutant: the comparison is the wrong way round.
HashMismatch_Inverted(digest, expected) == digest = expected

\* if file_hash.hexdigest() != expected_hash
HashMismatch(digest, expected) == digest # expected

\* No hash to check, or the digest is the expected one: return True.
ReturnTrue ==
  /\ pc = "verify"
  /\ \/ expected_hash = <<>>
     \/ /\ HashlibNew(hash_algo)
        /\ ~HashMismatch(FileDigest(dest.data, chunk_size), expected_hash)
  /\ pc' = "done"
  /\ outcome' = "True"
  /\ UNCHANGED <<args, dest, attempt, locals, message, counts, e>>

\* Mutant: the ValueError of hashlib.new leaves download_file uncaught.
UnknownAlgo_Fatal ==
  /\ pc = "verify"
  /\ expected_hash # <<>>
  /\ ~HashlibNew(hash_algo)
  /\ pc' = "done"
  /\ outcome' = "ValueError"
  /\ UNCHANGED <<args, dest, attempt, locals, message, counts, e>>

\* hashlib.new raises ValueError: a transient failure.
UnknownAlgo ==
  /\ pc = "verify"
  /\ expected_hash # <<>>
  /\ ~HashlibNew(hash_algo)
  /\ ExceptHandler
  /\ e' = "ValueError"
  /\ UNCHANGED <<args, counts>>

\* Mutant: the mismatch is caught by the except clause like a transient failure.
RaiseHashMismatch_Caught ==
  /\ pc = "verify"
  /\ expected_hash # <<>>
  /\ HashlibNew(hash_algo)
  /\ FileDigest(dest.data, chunk_size) # expected_hash
  /\ ExceptHandler
  /\ e' = "HashMismatchError"
  /\ UNCHANGED <<args, counts>>

\* dest.unlink(); raise HashMismatchError: no except clause catches it.
RaiseHashMismatch ==
  /\ pc = "verify"
  /\ expected_hash # <<>>
  /\ HashlibNew(hash_algo)
  /\ HashMismatch(FileDigest(dest.data, chunk_size), expected_hash)
  /\ dest' = Unlinked(dest)
  /\ pc' = "done"
  /\ outcome' = "HashMismatchError"
  /\ UNCHANGED <<args, attempt, locals, message, counts, e>>

\* ------------------------------------------------------------- the call
Next ==
  \/ MkdirOk \/ MkdirError
  \/ NextAttempt \/ ReturnFalse
  \/ PlanFresh \/ Probe
  \/ GetError \/ GetBadLength \/ GetOk
  \/ OpenOk \/ OpenError
  \/ WriteChunk \/ CallbackRaises \/ CallbackRaisesCaught \/ StreamError \/ WriteError \/ EndOfStream
  \/ ReturnTrue \/ UnknownAlgo \/ RaiseHashMismatch

Spec == Init /\ [][Next]_vars

\* Every network and file operation returns: a call that can take a step
\* takes one.
FairSpec == Spec /\ WF_vars(Next)

\* ------------------------------------------------------------- properties
\* The digest of a whole content, as hashlib computes it in one update.
Digest(data) == HexDigest(HashUpdate(HashInit, data))

\* The verifier has nothing to object to in the destination file.
Accepted ==
  \/ expected_hash = <<>>
  \/ HashlibNew(hash_algo) /\ Digest(dest.data) = expected_hash

Prefix(p, t) == Len(p) <= Len(t) /\ p = SubSeq(t, 1, Len(p))

\* C1: whenever the call returns True and a non-empty expected_hash was
\* given, the digest of the destination file equals expected_hash.
C1_HashVerified ==
  (outcome = "True" /\ expected_hash # <<>>)
    => (dest.exists /\ Digest(dest.data) = expected_hash)

\* A verified success of a resumed transfer over an earlier file.
C1_Witness ==
  /\ outcome = "True"
  /\ expected_hash # <<>>
  /\ mode = "ab"
  /\ prior.exists

\* C2: after a call that failed with retries exhausted, with a hash
\* mismatch or in mkdir, the destination path does not exist, also when a
\* destination file existed before the call.
C2_FailureLeavesNoFile ==
  outcome \in {"DownloadError", "HashMismatchError", "OSError"} => ~dest.exists

\* Retries exhausted after bytes were written over an earlier file.
C2_Witness ==
  /\ outcome = "DownloadError"
  /\ prior.exists
  /\ downloaded > resume_pos
  /\ attempt = 0

\* C3: a digest that differs from expected_hash deletes the destination and
\* raises HashMismatchError at once; no HEAD or GET follows it, whatever
\* attempts remain.
C3_MismatchIsFatal ==
  [][ /\ (pc = "verify" /\ expected_hash # <<>> /\ HashlibNew(hash_algo)
            /\ Digest(dest.data) # expected_hash)
        => /\ ~dest'.exists
           /\ outcome' = "HashMismatchError"
           /\ pc' = "done"
           /\ attempt' = attempt
           /\ getCount' = getCount
           /\ headCount' = headCount
      /\ outcome = "HashMismatchError"
        => (getCount' = getCount /\ headCount' = headCount /\ outcome' = outcome)
    ]_vars

\* A mismatch on the first of several allowed attempts.
C3_Witness ==
  /\ outcome = "HashMismatchError"
  /\ attempt + 1 < max_retries
  /\ getCount = 1

\* C4: when the loop runs with max_retries = n >= 1 and every content
\* request fails transiently, exactly n GET requests are made and the call
\* raises DownloadError naming n attempts; there is never an (n+1)-th.
C4_RetryExhaustion ==
  /\ getCount <= max_retries
  /\ (pc = "done" /\ outcome # "OSError" /\ max_retries >= 1 /\ failedGets = getCount)
       => (outcome = "DownloadError" /\ getCount = max_retries /\ message = max_retries)

\* Every request of a call with several attempts failed.
C4_Witness ==
  /\ outcome = "DownloadError"
  /\ failedGets = getCount
  /\ max_retries >= 2
  /\ message = max_retries

\* C5: when the first N-1 content requests failed transiently and request
\* N is answered 200 with the content, the file written is exactly that
\* content, and the call returns True with it (the verifier accepting it).
ServedOnLastRequest ==
  /\ pc = "verify"
  /\ getCount >= 1
  /\ getCount <= max_retries
  /\ failedGets = getCount - 1
  /\ response.status = 200

C5_RetrySuccess ==
  [][ ServedOnLastRequest
        => /\ dest = File(response.body)
           /\ Accepted => (outcome' = "True" /\ pc' = "done" /\ dest' = dest)
    ]_vars

\* Success on the second request, after a failed one, over an earlier file.
C5_Witness ==
  /\ outcome = "True"
  /\ getCount = 2
  /\ failedGets = 1
  /\ response.status = 200
  /\ prior.exists
  /\ prior.data # <<>>
  /\ dest = File(response.body)
  /\ response.body # <<>>

\* C6: the destination held the first K bytes of the content T (0 < K <
\* Len(T)), resume is on, the probe reported Len(T), and the range request
\* was answered 206 with the bytes of T from K on: after the call returns,
\* the destination is T.
Resumed(T) ==
  /\ resume
  /\ prior.exists
  /\ 0 < Len(prior.data) /\ Len(prior.data) < Len(T)
  /\ Prefix(prior.data, T)
  /\ ~ProbeFails(head_resp) /\ IntOf(head_resp.content_length) = Len(T)
  /\ range_from = Len(prior.data)
  /\ response.status = 206
  /\ response.body = SubSeq(T, Len(prior.data) + 1, Len(T))

\* Resumed(T) holds of no T but the earlier file followed by the body.
C6_ResumeCorrect ==
  LET T == prior.data \o response.body
  IN (outcome = "True" /\ Resumed(T)) => dest = File(T)

C6_Witness ==
  /\ outcome = "True"
  /\ Resumed(prior.data \o response.body)
  /\ dest = File(prior.data \o response.body)

\* C7: the destination held the first K bytes of the content, resume is on,
\* and the range request is answered 200 with the whole content: the file
\* written is the whole content, not the old bytes followed by it, on the
\* first attempt, and the call returns True with it.
RangeAnsweredInFull ==
  /\ pc = "verify"
  /\ resume
  /\ prior.exists
  /\ range_from > 0
  /\ range_from = Len(prior.data)
  /\ response.status = 200
  /\ Prefix(prior.data, response.body)

C7_RangeIgnoredFallback ==
  [][ RangeAnsweredInFull
        => /\ dest = File(response.body)
           /\ attempt = 0 /\ getCount = 1 /\ failedGets = 0
           /\ Accepted => (outcome' = "True" /\ pc' = "done" /\ dest' = dest
                            /\ attempt' = 0 /\ getCount' = 1)
    ]_vars

C7_Witness ==
  /\ outcome = "True"
  /\ range_from > 0
  /\ response.status = 200
  /\ prior.exists
  /\ Prefix(prior.data, response.body)
  /\ Len(prior.data) < Len(response.body)
  /\ dest = File(response.body)
  /\ getCount = 1

\* C8: every call ends either with True and a complete file at the
\* destination, or with an error; it never returns False.
C8_TrueOrError ==
  pc = "done" =>
    \/ outcome = "True" /\ dest.exists /\ Rest = <<>>
    \/ outcome \in {"DownloadError", "HashMismatchError", "OSError", "CallbackError"}

\* C9, as claimed: after a success without expected hash the destination is
\* exactly the body of the final attempt's response.
C9_FileIsLastBody ==
  (outcome = "True" /\ expected_hash = <<>>) => dest = File(response.body)

\* C9, amended: after a success without expected hash the destination is
\* the body of the final attempt's response when the file was opened to
\* overwrite, and the earlier destination followed by that body when it was
\* opened to append (a resumed transfer).
C9_FileIsBodyOrResumed ==
  (outcome = "True" /\ expected_hash = <<>>)
    => dest = File(IF mode = "ab" THEN prior.data \o response.body ELSE response.body)

C9_Witness ==
  /\ outcome = "True"
  /\ expected_hash = <<>>
  /\ mode = "ab"
  /\ response.body # <<>>
  /\ dest = File(prior.data \o response.body)

\* C10: the integrity check compares case-insensitively: an expected_hash
\* that differs from the digest of the file only in letter case is accepted
\* and the call succeeds.
C10_CaseInsensitive ==
  [][ (pc = "verify" /\ expected_hash # <<>> /\ HashlibNew(hash_algo)
         /\ Lower(expected_hash) = Lower(Digest(dest.data)))
        => outcome' = "True"
    ]_vars

\* C11: when the content response declares no content length, the progress
\* callback is never invoked during that attempt, in every transfer mode.
C11_NoLengthNoProgress ==
  (response.status \in GoodStatuses /\ response.content_length = NoLength)
    => (calls = <<>> /\ outcome # "CallbackError")

\* The chunks of the current attempt written so far.
ChunksWritten == ((downloaded - resume_pos) + chunk_size - 1) \div chunk_size

\* C12: within an attempt the callback is invoked once per chunk, after the
\* chunk is written, with strictly increasing downloaded values that start
\* above the attempt's starting offset, and with one and the same total.
C12_ProgressOrdered ==
  /\ \A i \in 1..Len(calls) :
       /\ calls[i][2] = total_size
       /\ calls[i][1] > resume_pos
       /\ i > 1 => calls[i][1] > calls[i - 1][1]
  /\ calls # <<>> => calls[Len(calls)][1] = downloaded
  /\ (pc \in {"stream", "verify"} /\ progress_callback = "records" /\ total_size # 0)
       => (Len(calls) = ChunksWritten /\ Len(dest.data) = downloaded)

\* Two chunks reported in a resumed attempt.
C12_Witness ==
  /\ pc = "verify"
  /\ Len(calls) = 2
  /\ resume_pos > 0

\* C13: on a successful attempt whose response declares the length of its
\* body, the last callback invocation is (size of the file, size of the
\* file); in a resumed transfer the total is the bytes already on disk plus
\* the declared length.
C13_FinalProgress ==
  (outcome = "True" /\ response.content_length = Length(Len(response.body)))
    => /\ total_size = resume_pos + response.content_length.value
       /\ mode = "ab" => total_size = Len(prior.data) + response.content_length.value
       /\ (progress_callback = "records" /\ response.body # <<>>) => calls # <<>>
       /\ calls # <<>> => calls[Len(calls)] = <<Len(dest.data), Len(dest.data)>>

C13_Witness ==
  /\ outcome = "True"
  /\ response.status = 206
  /\ mode = "ab"
  /\ response.content_length.kind = "int"
  /\ calls # <<>>
  /\ calls[Len(calls)] = <<Len(dest.data), Len(dest.data)>>

\* C14: the probe and a Range header are issued at most once per call and
\* only on the first attempt; a transient failure deletes the destination,
\* so every later attempt starts without a destination and is fresh:
\* offset 0, overwrite mode, no Range header.
C14_ResumeOnlyFirstAttempt ==
  /\ headCount <= 1
  /\ head_resp # NoResponse => attempt = 0
  /\ range_from > 0 => attempt = 0
  /\ attempt > 0 => (resume_pos = 0 /\ mode = "wb" /\ range_from = 0)
  /\ (attempt > 0 /\ pc \in {"loop", "plan", "get", "open"}) => ~dest.exists

\* A second attempt about to send its request, the first having probed.
C14_Witness ==
  /\ attempt > 0
  /\ pc = "get"
  /\ resume
  /\ prior.exists
  /\ headCount = 1

\* The offset the decision table gives for the first attempt.
PlannedOffset ==
  IF resume /\ prior.exists /\ ~ProbeFails(head_resp)
       /\ Len(prior.data) < IntOf(head_resp.content_length)
    THEN Len(prior.data)
    ELSE 0

C16_ProbeFailureHarmless ==
  [][ /\ (pc = "plan" /\ ProbeWanted)
        => /\ pc' = "get"
           /\ headCount' = headCount + 1
           /\ ProbeFails(head_resp')
                => /\ dest' = dest
                   /\ attempt' = attempt
                   /\ outcome' = outcome
                   /\ getCount' = getCount
                   /\ resume_pos' = 0
                   /\ mode' = "wb"
      /\ (pc = "get" /\ ProbeFails(head_resp) /\ pc' = "open") => range_from' = 0
    ]_vars

\* The request follows a probe that gave an unparsable length.
C16_Witness ==
  /\ pc = "open"
  /\ head_resp.content_length = BadLength
  /\ dest = prior
  /\ dest.exists
  /\ attempt = 0
  /\ getCount = 1
  /\ range_from = 0

\* C17: after a range request the destination is appended to, with the
\* planned offset kept, only when the answer is 206; under every other
\* non-error status the transfer is fresh (overwrite, offset 0).
C17_AppendOnly206 ==
  (range_from > 0 /\ response.status \in GoodStatuses)
    => IF response.status = 206
         THEN mode = "ab" /\ resume_pos = range_from
         ELSE mode = "wb" /\ resume_pos = 0

\* The server serves the content T correctly: the probe, if made, reports
\* Len(T); the answer is 206 with the bytes of T from the offset asked for,
\* or 200 with the whole of T; and the transfer has completed.
ServedCorrectly(T) ==
  /\ pc = "verify"
  /\ head_resp # NoResponse
       => (~ProbeFails(head_resp) /\ IntOf(head_resp.content_length) = Len(T))
  /\ \/ response.status = 200 /\ response.body = T
     \/ /\ response.status = 206
        /\ range_from > 0
        /\ range_from < Len(T)
        /\ response.body = SubSeq(T, range_from + 1, Len(T))

\* C18: resume is never a correctness requirement: whatever bytes the
\* destination held, a transfer from a server that serves the content T
\* correctly ends with the file a call with resume off produces, T, and is
\* accepted with the hash of T.
C18_ResumeNeverNeeded ==
  \A T \in BytesUpTo(MaxPrior + MaxLen) :
    ServedCorrectly(T) => dest = File(T)

\* C19: a setup failure (mkdir fails, or the destination cannot be opened)
\* ends the call at once: it is not retried.
C19_SetupFailureNotRetried ==
  [][ /\ (pc = "mkdir" /\ pc' # "loop") => (pc' = "done" /\ outcome' = "OSError")
      /\ (pc = "open" /\ pc' # "stream")
           => (pc' = "done" /\ attempt' = attempt /\ getCount' = getCount)
    ]_vars

\* The terminal states of the orchestrator: Success, and FatalFailed with
\* the error raised.
Success == pc = "done" /\ outcome = "True"
FatalFailed ==
  pc = "done" /\ outcome \in {"DownloadError", "HashMismatchError", "OSError", "CallbackError"}

\* A step taken through the except clause of lines 74-79.
TransientFailure ==
  /\ pc \in {"get", "open", "stream", "verify"}
  /\ pc' = "loop" \/ outcome' = "DownloadError"

\* C20: every call eventually reaches Success or FatalFailed; a transient
\* failure leads to a new attempt if and only if fewer than max_retries
\* attempts have been made, and else to FatalFailed; the attempt counter
\* changes only by one, on a transient failure; nothing happens after a
\* terminal state.
C20_StateMachine ==
  /\ <>(Success \/ FatalFailed)
  /\ [][ /\ TransientFailure
              => /\ pc' = "loop" <=> attempt + 1 < max_retries
                 /\ pc' = "loop" => attempt' = attempt + 1
                 /\ pc' # "loop" => (pc' = "done" /\ outcome' = "DownloadError")
         /\ attempt' # attempt => (TransientFailure /\ attempt' = attempt + 1)
         /\ pc = "done" => UNCHANGED vars
       ]_vars

\* An expected hash is supplied under a name hashlib.new does not know.
UnsupportedAlgo == expected_hash # <<>> /\ hash_algo \notin SupportedAlgos

\* The body of the response is on disk in full, after the bytes kept by an
\* append.
FullyTransferred ==
  /\ dest.exists
  /\ Rest = <<>>
  /\ dest.data = (IF mode = "ab" THEN prior.data ELSE <<>>) \o response.body

\* C21: with an expected hash and an unsupported algorithm name, the
\* ValueError of hashlib.new is a transient failure: it is raised when the
\* file has been transferred in full, the file is deleted, and the transfer
\* is repeated while attempts remain; the last attempt ends the call in
\* DownloadError naming max_retries.  The call never ends in
\* HashMismatchError, nor in success.
C21_UnknownAlgoTransient ==
  /\ [](UnsupportedAlgo
          => /\ outcome \notin {"True", "HashMismatchError"}
             /\ pc = "verify" => FullyTransferred
             /\ (pc = "done" /\ outcome = "DownloadError")
                  => (attempt = max_retries - 1 /\ ~dest.exists /\ message = max_retries))
  /\ [][ (UnsupportedAlgo /\ pc = "verify")
           => /\ dest' = NoFile
              /\ UNCHANGED counts
              /\ IF attempt + 1 < max_retries
                   THEN pc' = "loop" /\ attempt' = attempt + 1 /\ outcome' = outcome
                   ELSE pc' = "done" /\ attempt' = attempt /\ outcome' = "DownloadError"
       ]_vars

\* The second of two attempts has transferred its body in full and ended
\* the call in DownloadError: only the verifier can have failed it.
C21_Witness ==
  /\ UnsupportedAlgo
  /\ pc = "done"
  /\ outcome = "DownloadError"
  /\ max_retries = 2
  /\ attempt = 1
  /\ getCount = 2
  /\ response.body # <<>>
  /\ downloaded = Len(response.body)
  /\ ~dest.exists

\* The exception types classified as transient.
TransientTypes == {"RequestException", "OSError", "ValueError"}

\* The callback is about to be called with the next chunk.
CallbackDue == pc = "stream" /\ Rest # <<>> /\ Reports

\* C22: only RequestException, OSError and ValueError are caught as
\* transient.  An exception of another type raised during an attempt, here
\* by the progress callback in the write loop, leaves download_file at
\* once: no cleanup, no further attempt, no further request, and the
\* destination stays on disk with the bytes written so far.  The same
\* callback raising ValueError is a transient failure: the file is deleted
\* and the attempt is used up.
C22_OnlyNamedTypesTransient ==
  /\ [](/\ e \in TransientTypes \cup {"none"}
        /\ outcome = "CallbackError"
             => /\ pc = "done"
                /\ progress_callback = "raises"
                /\ e = "none"
                /\ dest.exists
                /\ downloaded > resume_pos
                /\ dest.data = (IF mode = "ab" THEN prior.data ELSE <<>>)
                                 \o SubSeq(response.body, 1, downloaded - resume_pos))
  /\ [][ /\ (outcome' = "CallbackError" /\ outcome # "CallbackError")
             => /\ CallbackDue
                /\ dest' = File(dest.data \o NextChunk)
                /\ attempt' = attempt
                /\ UNCHANGED counts
         /\ (CallbackDue /\ progress_callback = "raises")
             => (outcome' = "CallbackError" \/ e' \in {"RequestException", "OSError"})
         /\ (CallbackDue /\ progress_callback = "raisesValueError")
             => /\ e' \in TransientTypes
                /\ dest' = NoFile
                /\ IF attempt + 1 < max_retries
                     THEN pc' = "loop" /\ attempt' = attempt + 1
                     ELSE pc' = "done" /\ outcome' = "DownloadError"
       ]_vars

\* The callback has raised on the second attempt, after the first chunk of
\* a longer body: the call is over and the one chunk is on disk.
C22_Witness ==
  /\ outcome = "CallbackError"
  /\ pc = "done"
  /\ attempt = 1
  /\ max_retries = 2
  /\ dest.exists
  /\ dest.data # <<>>
  /\ Len(dest.data) < Len(response.body)

====
